---- MODULE Spec2Model ----
(***************************************************************************)
(* A model of src/src/index.ts: the RateLimiter class (constructor, check, *)
(* consume, reset) running against one Redis sorted-set key that several   *)
(* callers share.  Every await of the source is a step of its own, so the  *)
(* read batch and the write batch of one consume interleave with the       *)
(* batches of other callers and with the passing of time.                  *)
(*                                                                         *)
(* One identifier is modelled: getKey maps an identifier to one key and    *)
(* no operation touches a key other than its own.                          *)
(* Time is one clock in milliseconds, read by Date.now() and by the store. *)
(* Math.random() is modelled as returning a value that no member of the    *)
(* key built from the same now and i holds: the least such number.         *)
(***************************************************************************)
EXTENDS Integers, Sequences, FiniteSets, TLC

\* ---------------------------------------------------------------- bounds
MaxTime == 4
MaxOps == 3
NumCallers == 2

Callers == 1..NumCallers

\* ------------------------------------------------------ program constants
DefaultWindowMs == 60000
DefaultMax == 100

VARIABLES
    env,        \* what the environment may do: [faults, sequential, costs]
    options,    \* the RateLimiterOptions given to the constructor
    windowMs,   \* this.windowMs
    max,        \* this.max
    clock,      \* the time in ms
    store,      \* the key in Redis: [z |-> set of [score, member], exp |-> expiry time or -1]
    call,       \* per caller: the call in flight and its locals
    nDone,      \* how many calls have completed
    last,       \* the call the latest step completed, with what it returned; NoCall
                \* when the latest step completed none
    obs,        \* ghost: what has been observed of the run so far (see Obs0)
    mw          \* the middleware expressMiddleware returned, and the request it serves

vars == <<env, options, windowMs, max, clock, store, call, nDone, last, obs, mw>>

\* ------------------------------------------------------------ JavaScript
\* An optional value is <<>> (undefined / null) or <<v>>.
Undefined == <<>>

Some(v) == <<v>>

\* a || d on an optional number: undefined and 0 are falsy.
OrDefault(a, d) == IF a = Undefined \/ a[1] = 0 THEN d ELSE a[1]

\* Math.max(a, b)
MathMax(a, b) == IF a >= b THEN a ELSE b

\* results?.[k]?.[1] with k counted from 1 here: the reply of the k-th command
ReplyAt(results, k) == IF k <= Len(results) THEN results[k] ELSE Undefined

\* ----------------------------------------------------------------- Redis
EmptyStore == [z |-> {}, exp |-> -1]

\* A sorted set without members does not exist as a key, and has no expiry.
Normalize(z, exp) == IF z = {} THEN EmptyStore ELSE [z |-> z, exp |-> exp]

\* ZREMRANGEBYSCORE key lo hi
Zremrangebyscore(st, lo, hi) ==
    Normalize({e \in st.z : ~(e.score >= lo /\ e.score <= hi)}, st.exp)

\* ZCARD key
Zcard(st) == Cardinality(st.z)

\* PTTL key at time t: -2 without key, -1 without expiry, else the ms left
Pttl(st, t) == IF st.z = {} THEN -2 ELSE IF st.exp < 0 THEN -1 ELSE st.exp - t

\* ZADD key score member: a member already present only changes its score
Zadd(st, score, member) ==
    [z |-> {e \in st.z : e.member # member} \cup {[score |-> score, member |-> member]},
     exp |-> st.exp]

\* PEXPIRE key ms at time t: nothing without key; a duration <= 0 deletes the key
Pexpire(st, ms, t) ==
    IF st.z = {} THEN st
    ELSE IF ms <= 0 THEN EmptyStore
    ELSE [z |-> st.z, exp |-> t + ms]

\* A delete sent for another key than the record's (the prefix left out)
DelOtherKey(st) == st

\* DEL key, as reset sends it for getKey(identifier)
Del(st) == EmptyStore

\* The store drops a key whose expiry time has come.
Expire(st, t) == IF st.z # {} /\ st.exp >= 0 /\ t >= st.exp THEN EmptyStore ELSE st

\* ------------------------------------------------------------ RateLimiter
\* constructor: this.windowMs = options.windowMs || 60000
CtorWindowMs(opts) == OrDefault(opts.windowMs, DefaultWindowMs)

\* constructor: this.max = options.max || 100
CtorMax(opts) == OrDefault(opts.max, DefaultMax)

\* The constructor has no throw statement: it completes for every options object.
CtorOutcome(opts) == "ok"

\* A member without its random part
TokenNoRandom(now, i, r) == <<now, i, 0>>

\* The member consume adds for unit i: `${now}-${i}-${Math.random()}`
Token(now, i, r) == <<now, i, r>>

\* Math.random() in the token of unit i: a value no member with this now and i holds
MathRandom(st, now, i) ==
    LET used == {e.member[3] : e \in {x \in st.z : x.member[1] = now /\ x.member[2] = i}}
    IN  CHOOSE r \in 0..Cardinality(used) : r \notin used /\ \A q \in 0..(r - 1) : q \in used

\* What multi.exec() may do: run the batch and resolve with its replies, resolve
\* with null (the transaction was aborted), resolve with an error in every reply,
\* or reject (the connection failed).
ExecOutcomes == IF env.faults THEN {"ok", "null", "cmderr", "reject"} ELSE {"ok"}

\* What a single awaited command (pttl, del) may do.
CmdOutcomes == IF env.faults THEN {"ok", "reject"} ELSE {"ok"}

\* A trim whose bound is one millisecond too high
TrimOneLate(st, now) == Zremrangebyscore(st, 0, now - windowMs + 1)

\* A trim up to now instead of up to now - windowMs
TrimToNow(st, now) == Zremrangebyscore(st, 0, now)

\* The store after zremrangebyscore(key, 0, windowStart)
TrimBatch(st, now) == Zremrangebyscore(st, 0, now - windowMs)

\* The replies of check's batch run at time t: [removed], [count], [ttl]
CheckReplies(st, now, t) ==
    LET st1 == TrimBatch(st, now)
    IN  <<Some(Zcard(st) - Zcard(st1)), Some(Zcard(st1)), Some(Pttl(st1, t))>>

\* The replies of consume's first batch: [removed], [count]
ReadReplies(st, now) ==
    LET st1 == TrimBatch(st, now)
    IN  <<Some(Zcard(st) - Zcard(st1)), Some(Zcard(st1))>>

\* What exec() resolves with, given what it did
Resolved(outcome, replies) ==
    CASE outcome = "ok" -> replies
      [] outcome = "cmderr" -> [k \in 1..Len(replies) |-> Undefined]
      [] OTHER -> <<>>

\* check, lines 47-58: the decision from the batch's results
CheckDecision(now, results) ==
    LET count == OrDefault(ReplyAt(results, 2), 0)
        ttl == OrDefault(ReplyAt(results, 3), windowMs)
    IN  [allowed |-> count < max,
         remaining |-> MathMax(0, max - count),
         total |-> max,
         resetAt |-> now + MathMax(ttl, 0)]

\* consume, line 71: currentCount
CurrentCount(results) == OrDefault(ReplyAt(results, 2), 0)

\* A guard that lets one request too many through: > for >=
RejectsOneLate(currentCount, cost) == currentCount > max

\* A guard that counts the request itself against the quota one unit too early
RejectsEarly(currentCount, cost) == currentCount + cost >= max

\* consume, line 73: the guard of the rejection
Rejects(currentCount, cost) == currentCount >= max

\* A rejection that reports a full window from now, as the admission does
RejectDecisionFullWindow(now, ttl) ==
    [allowed |-> FALSE, remaining |-> 0, total |-> max, resetAt |-> now + windowMs]

\* consume, lines 75-80: the rejection
RejectDecision(now, ttl) ==
    [allowed |-> FALSE, remaining |-> 0, total |-> max, resetAt |-> now + MathMax(ttl, 0)]

\* consume, lines 85-87: for (i = 0; i < cost; i++) zadd(key, now + i, token)
RECURSIVE ZaddLoop(_, _, _, _)
ZaddLoop(st, now, i, cost) ==
    IF i >= cost THEN st
    ELSE ZaddLoop(Zadd(st, now + i, Token(now, i, MathRandom(st, now, i))), now, i + 1, cost)

\* A write batch without its pexpire
WriteBatchNoExpiry(st, now, cost, t) == ZaddLoop(st, now, 0, cost)

\* consume, lines 84-89: the write batch run at time t
WriteBatch(st, now, cost, t) == Pexpire(ZaddLoop(st, now, 0, cost), windowMs, t)

\* consume, lines 91-98: the admission
AdmitDecision(now, currentCount, cost) ==
    [allowed |-> TRUE,
     remaining |-> MathMax(0, max - currentCount - cost),
     total |-> max,
     resetAt |-> now + windowMs]

\* ---------------------------------------------------------------- calls
Idle == [pc |-> "idle", op |-> "none", now |-> 0, cost |-> 0, cnt |-> 0, fault |-> FALSE]

InFlight == {c \in Callers : call[c].pc # "idle"}

\* A call may start: the bound on calls is not reached, and in a sequential
\* environment no other call is in flight. Callers are interchangeable, so the
\* call is given to the first caller that is free.
MayStart(c) ==
    /\ call[c].pc = "idle"
    /\ \A d \in Callers : d < c => call[d].pc # "idle"
    /\ nDone + Cardinality(InFlight) < MaxOps
    /\ env.sequential => InFlight = {}

\* A call that produced no decision (reset, or a call that threw)
NoDecision == [allowed |-> FALSE, remaining |-> 0, total |-> 0, resetAt |-> 0]

\* The record of a call completed by a command whose outcome is given. out is
\* "ok" (the promise resolved with dec, the RateLimitResult) or "error" (it
\* rejected). The other fields are ghosts: the count the call read, the store
\* round trips it made, whether exec() or a command of the call failed in any way,
\* the operation the store served just before the call's last command, whether
\* the key was absent before that command, whether the command changed the
\* store, the entries it added.
Completed(c, op, outcome, dec, trips, st0, st1) ==
    LET d == IF outcome = "reject" THEN NoDecision ELSE dec
    IN  [op |-> op, cost |-> call[c].cost, now |-> call[c].now,
         out |-> IF outcome = "reject" THEN "error" ELSE "ok",
         allowed |-> d.allowed, remaining |-> d.remaining,
         total |-> d.total, resetAt |-> d.resetAt,
         cnt |-> call[c].cnt, trips |-> trips,
         fault |-> (call[c].fault \/ outcome # "ok"),
         prev |-> obs.lastBatch,
         absent |-> (st0.z = {}), changed |-> (st1 # st0),
         added |-> Cardinality(st1.z \ st0.z)]

NoCall ==
    [op |-> "none", cost |-> 0, now |-> 0, out |-> "ok", allowed |-> FALSE,
     remaining |-> 0, total |-> 0, resetAt |-> 0, cnt |-> 0, trips |-> 0,
     fault |-> FALSE, prev |-> "none", absent |-> TRUE, changed |-> FALSE, added |-> 0]

\* Ghost observations, none of which the program reads:
\*   only1      every call started so far is a consume with cost 1
\*   firstNow   while only1: the time the first call started; otherwise -1
\*   admitted   while only1: how many consumes returned allowed = true; otherwise 0
\*   lastAdmit  the time of the most recent write batch the store ran, -1 if none
\*   lastBatch  the operation whose command the store served most recently
\*   lastCheck  <<r>>: a check returned remaining r and the store's entries are
\*              as that check left them; <<>> otherwise
\*   sinceReset "quiet": a reset has returned, no consume has started since and
\*              no write batch has added an entry since; "wrote": the same, but
\*              a write batch has added an entry since; "no" otherwise
Obs0 ==
    [only1 |-> TRUE, firstNow |-> -1, admitted |-> 0, lastAdmit |-> -1,
     lastBatch |-> "none", lastCheck |-> <<>>, sinceReset |-> "no"]

\* obs once a call of operation op and cost k starts
Started(op, k) ==
    LET only == obs.only1 /\ op = "consume" /\ k = 1
    IN  [obs EXCEPT !.only1 = only,
                    !.firstNow = IF ~only THEN -1 ELSE IF obs.firstNow < 0 THEN clock ELSE obs.firstNow,
                    !.admitted = IF only THEN obs.admitted ELSE 0,
                    !.sinceReset = IF op = "consume" THEN "no" ELSE @]

\* obs once the store has served a command of operation op that took it from st0 to st1
Served(o, op, st0, st1) ==
    [o EXCEPT !.lastBatch = op,
              !.lastCheck = IF st1.z # st0.z THEN <<>> ELSE o.lastCheck,
              !.sinceReset = IF o.sinceReset = "quiet" /\ st1.z \ st0.z # {}
                             THEN "wrote" ELSE @]

\* check, lines 36-38: const now = Date.now()
StartCheck(c) ==
    /\ MayStart(c)
    /\ call' = [call EXCEPT ![c] = [Idle EXCEPT !.pc = "check_exec", !.op = "check", !.now = clock]]
    /\ obs' = Started("check", 0)
    /\ UNCHANGED <<env, options, windowMs, max, clock, store, nDone>>
    /\ last' = NoCall

\* check, lines 41-58: await multi.exec(), then the decision
CheckExec(c) ==
    /\ call[c].pc = "check_exec"
    /\ \E outcome \in ExecOutcomes :
        LET now == call[c].now
            st1 == IF outcome = "ok" THEN TrimBatch(store, now) ELSE store
            results == Resolved(outcome, CheckReplies(store, now, clock))
            dec == CheckDecision(now, results)
        IN  /\ store' = st1
            /\ last' = Completed(c, "check", outcome, dec, 1, store, st1)
            /\ obs' = [Served(obs, "check", store, st1) EXCEPT
                          !.lastCheck = IF outcome = "ok" THEN <<dec.remaining>> ELSE <<>>]
    /\ nDone' = nDone + 1
    /\ call' = [call EXCEPT ![c] = Idle]
    /\ UNCHANGED <<env, options, windowMs, max, clock>>

\* consume, lines 62-64: const now = Date.now()
StartConsume(c) ==
    /\ MayStart(c)
    /\ \E cost \in env.costs :
        /\ call' = [call EXCEPT ![c] =
                      [Idle EXCEPT !.pc = "consume_read", !.op = "consume", !.now = clock, !.cost = cost]]
        /\ obs' = Started("consume", cost)
    /\ UNCHANGED <<env, options, windowMs, max, clock, store, nDone>>
    /\ last' = NoCall

\* consume, lines 66-73: await multi.exec(), currentCount, the guard
ConsumeRead(c) ==
    /\ call[c].pc = "consume_read"
    /\ \E outcome \in ExecOutcomes :
        LET now == call[c].now
            st1 == IF outcome = "ok" THEN TrimBatch(store, now) ELSE store
            results == Resolved(outcome, ReadReplies(store, now))
            currentCount == CurrentCount(results)
        IN  /\ store' = st1
            /\ obs' = Served(obs, "consume", store, st1)
            /\ IF outcome = "reject"
               THEN /\ last' = Completed(c, "consume", outcome, NoDecision, 1, store, st1)
                    /\ nDone' = nDone + 1
                    /\ call' = [call EXCEPT ![c] = Idle]
               ELSE /\ last' = NoCall
                    /\ nDone' = nDone
                    /\ call' = [call EXCEPT ![c].cnt = currentCount,
                                            ![c].fault = (outcome # "ok"),
                                            ![c].pc = IF Rejects(currentCount, call[c].cost)
                                                      THEN "consume_ttl" ELSE "consume_write"]
    /\ UNCHANGED <<env, options, windowMs, max, clock>>

\* consume, lines 74-80: await this.redis.pttl(key), the rejection
ConsumeTtl(c) ==
    /\ call[c].pc = "consume_ttl"
    /\ \E outcome \in CmdOutcomes :
        last' = Completed(c, "consume", outcome,
                          RejectDecision(call[c].now, Pttl(store, clock)), 2, store, store)
    /\ obs' = Served(obs, "consume", store, store)
    /\ nDone' = nDone + 1
    /\ call' = [call EXCEPT ![c] = Idle]
    /\ UNCHANGED <<env, options, windowMs, max, clock, store>>

\* consume, lines 84-98: the write batch, await addMulti.exec(), the admission
ConsumeWrite(c) ==
    /\ call[c].pc = "consume_write"
    /\ \E outcome \in ExecOutcomes :
        LET now == call[c].now
            cost == call[c].cost
            st1 == IF outcome = "ok" THEN WriteBatch(store, now, cost, clock) ELSE store
        IN  /\ store' = st1
            /\ last' = Completed(c, "consume", outcome, AdmitDecision(now, call[c].cnt, cost),
                                 2, store, st1)
            /\ obs' = [Served(obs, "consume", store, st1) EXCEPT
                          !.admitted = IF outcome = "reject" \/ ~obs.only1 THEN @ ELSE @ + 1,
                          !.lastAdmit = IF outcome = "ok" THEN clock ELSE @]
    /\ nDone' = nDone + 1
    /\ call' = [call EXCEPT ![c] = Idle]
    /\ UNCHANGED <<env, options, windowMs, max, clock>>

\* reset, lines 101-103: await this.redis.del(key)
Reset(c) ==
    /\ MayStart(c)
    /\ \E outcome \in CmdOutcomes :
        LET st1 == IF outcome = "ok" THEN Del(store) ELSE store
        IN  /\ store' = st1
            /\ last' = Completed(c, "reset", outcome, NoDecision, 1, store, st1)
            /\ obs' = [Served(Started("reset", 0), "reset", store, st1) EXCEPT
                          !.sinceReset = IF outcome = "ok" THEN "quiet" ELSE @]
    /\ nDone' = nDone + 1
    /\ UNCHANGED <<env, options, windowMs, max, clock, call>>

\* A millisecond passes; the store drops the key if its expiry time has come.
Tick ==
    /\ clock < MaxTime
    /\ clock' = clock + 1
    /\ store' = Expire(store, clock + 1)
    /\ obs' = [obs EXCEPT !.lastCheck = IF store'.z # store.z THEN <<>> ELSE @]
    /\ last' = NoCall
    /\ UNCHANGED <<env, options, windowMs, max, call, nDone>>

\* ------------------------------------------------------- expressMiddleware
\* Math.ceil(x / 1000)
CeilSeconds(x) == IF x % 1000 = 0 THEN x \div 1000 ELSE (x \div 1000) + 1

\* The response headers before any is set
NoHeaders ==
    [limit |-> Undefined, remaining |-> Undefined, reset |-> Undefined,
     retryAfter |-> Undefined]

\* What one request has seen so far: where the middleware is in it (pc), the
\* RateLimitResult consume resolved with, the headers set on the response, the
\* status the default handler sends, and counts of what was called: next(),
\* next(error), the handler, limiter.consume. threw names the call that raised.
NoRequest ==
    [pc |-> "idle", result |-> NoDecision, hdr |-> NoHeaders, status |-> 0,
     nexts |-> 0, errors |-> 0, handled |-> 0, consumes |-> 0,
     skipped |-> FALSE, threw |-> "none"]

\* lines 115-127: the closure expressMiddleware(limiter, o) returns. o.max is
\* kept as given: nothing in expressMiddleware reads it. reqs counts the
\* requests received, and clean is a ghost: no call has raised so far.
expressMiddleware(o) ==
    [max |-> o.max, headers |-> (o.headers # Some(FALSE)),
     req |-> NoRequest, reqs |-> 0, clean |-> TRUE]

\* What a callback given in the options (skip, keyGenerator, handler) may do
CallbackOutcomes == IF env.throws THEN {"ok", "throw"} ELSE {"ok"}

\* A catch that calls next(error) twice
CaughtTwice(r, by) == [r EXCEPT !.pc = "done", !.errors = @ + 2, !.threw = by]

\* line 152: catch (error) { next(error) }
Caught(r, by) == [r EXCEPT !.pc = "done", !.errors = @ + 1, !.threw = by]

\* lines 129-133: a request arrives; await skip(req); if it is true, next()
MwSkip ==
    /\ mw.req.pc \in {"idle", "done"}
    /\ mw.reqs < MaxOps
    /\ \E outcome \in CallbackOutcomes, skip \in BOOLEAN :
          mw' = [mw EXCEPT
                   !.reqs = @ + 1,
                   !.clean = @ /\ outcome = "ok",
                   !.req = IF outcome = "throw" THEN Caught(NoRequest, "skip")
                           ELSE IF skip
                           THEN [NoRequest EXCEPT !.pc = "done", !.skipped = TRUE, !.nexts = 1]
                           ELSE [NoRequest EXCEPT !.pc = "key"]]
    /\ last' = NoCall
    /\ UNCHANGED <<env, options, windowMs, max, clock, store, call, nDone, obs>>

\* lines 135-136: keyGenerator(req), then limiter.consume(key) up to its first
\* await (lines 62-64, with the default cost of 1)
MwConsume(c) ==
    /\ mw.req.pc = "key"
    /\ MayStart(c)
    /\ \E outcome \in CallbackOutcomes :
          IF outcome = "throw"
          THEN /\ mw' = [mw EXCEPT !.clean = FALSE, !.req = Caught(@, "keyGenerator")]
               /\ UNCHANGED <<call, obs>>
          ELSE /\ mw' = [mw EXCEPT !.req.pc = "await", !.req.consumes = @ + 1]
               /\ call' = [call EXCEPT ![c] =
                             [Idle EXCEPT !.pc = "consume_read", !.op = "consume",
                                          !.now = clock, !.cost = 1]]
               /\ obs' = Started("consume", 1)
    /\ last' = NoCall
    /\ UNCHANGED <<env, options, windowMs, max, clock, store, nDone>>

\* line 136: `await limiter.consume(key)` resumes once the call has completed,
\* with its result, or in the catch of line 151 if it rejected
MwResumes ==
    /\ mw.req.pc = "await"
    /\ mw' = IF last'.op # "consume" THEN mw
             ELSE IF last'.out = "error"
             THEN [mw EXCEPT !.clean = FALSE, !.req = Caught(@, "consume")]
             ELSE [mw EXCEPT !.clean = @ /\ ~last'.fault,
                             !.req.pc = "respond",
                             !.req.result = [allowed |-> last'.allowed,
                                             remaining |-> last'.remaining,
                                             total |-> last'.total,
                                             resetAt |-> last'.resetAt]]

\* lines 138-142: the X-RateLimit-* headers
RateLimitHeaders(result) ==
    [NoHeaders EXCEPT !.limit = Some(result.total),
                      !.remaining = Some(result.remaining),
                      !.reset = Some(CeilSeconds(result.resetAt))]

\* lines 138-150: the headers; on a rejection Retry-After and the handler (the
\* default one sends status 429); otherwise next()
MwRespond ==
    /\ mw.req.pc = "respond"
    /\ LET result == mw.req.result
           hdr == IF mw.headers THEN RateLimitHeaders(result) ELSE NoHeaders
       IN  IF ~result.allowed
           THEN \E outcome \in CallbackOutcomes :
                  LET r == [mw.req EXCEPT
                              !.hdr = [hdr EXCEPT !.retryAfter =
                                          Some(CeilSeconds(result.resetAt - clock))],
                              !.handled = @ + 1,
                              !.status = 429]
                  IN  mw' = [mw EXCEPT
                               !.clean = @ /\ outcome = "ok",
                               !.req = IF outcome = "throw" THEN Caught(r, "handler")
                                       ELSE [r EXCEPT !.pc = "done"]]
           ELSE mw' = [mw EXCEPT !.req = [@ EXCEPT !.hdr = hdr, !.nexts = @ + 1,
                                                   !.pc = "done"]]
    /\ last' = NoCall
    /\ UNCHANGED <<env, options, windowMs, max, clock, store, call, nDone, obs>>

\* --------------------------------------------------------------- the steps
\* The limiter used directly
Next ==
    \/ \E c \in Callers : StartCheck(c) /\ UNCHANGED mw
    \/ \E c \in Callers : CheckExec(c) /\ UNCHANGED mw
    \/ \E c \in Callers : StartConsume(c) /\ UNCHANGED mw
    \/ \E c \in Callers : ConsumeRead(c) /\ UNCHANGED mw
    \/ \E c \in Callers : ConsumeTtl(c) /\ UNCHANGED mw
    \/ \E c \in Callers : ConsumeWrite(c) /\ UNCHANGED mw
    \/ \E c \in Callers : Reset(c) /\ UNCHANGED mw
    \/ Tick /\ UNCHANGED mw

\* The limiter used through the middleware, one request at a time
NextMw ==
    \/ MwSkip
    \/ \E c \in Callers : MwConsume(c)
    \/ \E c \in Callers : ConsumeRead(c) /\ MwResumes
    \/ \E c \in Callers : ConsumeTtl(c) /\ MwResumes
    \/ \E c \in Callers : ConsumeWrite(c) /\ MwResumes
    \/ MwRespond
    \/ Tick /\ UNCHANGED mw

\* ------------------------------------------------------- specifications
\* The options a caller may give: absent, or a number.
ValidWindows == {Some(2), Some(3)}

ValidMaxes == {Some(1), Some(2)}

RaceWindows == {Some(2)}

AnyWindows == {Undefined, Some(-1), Some(0), Some(2)}

AnyMaxes == {Undefined, Some(-1), Some(0), Some(1)}

\* The state after new RateLimiter(opts) in environment e, the key unused.
InitAll(e, opts, mwOpts) ==
    /\ env = e
    /\ options = opts
    /\ windowMs = CtorWindowMs(opts)
    /\ max = CtorMax(opts)
    /\ clock = 0
    /\ store = EmptyStore
    /\ call = [c \in Callers |-> Idle]
    /\ nDone = 0
    /\ last = NoCall
    /\ obs = Obs0
    /\ mw = expressMiddleware(mwOpts)

\* The limiter used directly: the middleware is given no option and no request
NoMiddlewareOptions == [max |-> Undefined, headers |-> Undefined]

InitWith(e, opts) == InitAll(e, opts, NoMiddlewareOptions)

\* Racing callers, a store that works, a valid configuration, consumes of cost 1.
Init ==
    \E w \in RaceWindows, m \in ValidMaxes :
        InitWith([faults |-> FALSE, sequential |-> FALSE, costs |-> {1}],
                 [windowMs |-> w, max |-> m])

Spec == Init /\ [][Next]_vars

\* One call at a time, a store that works, a valid configuration.
InitSeq ==
    \E w \in ValidWindows, m \in ValidMaxes :
        InitWith([faults |-> FALSE, sequential |-> TRUE, costs |-> {1, 2, 3}],
                 [windowMs |-> w, max |-> m])

SpecSeq == InitSeq /\ [][Next]_vars

\* One call at a time, a store that works, a valid configuration, consumes of cost 1.
InitSeqUnit ==
    \E w \in ValidWindows, m \in ValidMaxes :
        InitWith([faults |-> FALSE, sequential |-> TRUE, costs |-> {1}],
                 [windowMs |-> w, max |-> m])

SpecSeqUnit == InitSeqUnit /\ [][Next]_vars

\* One call at a time, a store that may fail, a valid configuration.
InitFaults ==
    \E w \in ValidWindows, m \in ValidMaxes :
        InitWith([faults |-> TRUE, sequential |-> TRUE, costs |-> {1}],
                 [windowMs |-> w, max |-> m])

SpecFaults == InitFaults /\ [][Next]_vars

\* One call at a time, a store that works, any configuration and any cost.
InitAny ==
    \E w \in AnyWindows, m \in AnyMaxes :
        InitWith([faults |-> FALSE, sequential |-> TRUE, costs |-> {-1, 1}],
                 [windowMs |-> w, max |-> m])

SpecAny == InitAny /\ [][Next]_vars

\* The options given to expressMiddleware: a quota of its own or none, headers
\* left on or switched off
MwMaxes == {Undefined, Some(1)}

MwHeaders == {Undefined, Some(FALSE)}

\* Requests through the middleware, one at a time: the store may fail and the
\* callbacks may throw; the limiter has a valid configuration.
InitMw ==
    \E w \in RaceWindows, m \in ValidMaxes, mm \in MwMaxes, h \in MwHeaders :
        InitAll([faults |-> TRUE, sequential |-> TRUE, costs |-> {1}, throws |-> TRUE],
                [windowMs |-> w, max |-> m],
                [max |-> mm, headers |-> h])

SpecMw == InitMw /\ [][NextMw]_vars

\* ------------------------------------------------------------------ claims
\* The entries of the record whose score is inside the window that ends now
Live == {e \in store.z : e.score > clock - windowMs}

\* C1: sequential consume(id, 1) calls on a fresh identifier, all inside one
\* window: the k-th call for k <= max is admitted with remaining = max - k, and
\* call max + 1 is rejected with remaining = 0.
C1_MonotonicAdmission ==
    (last.op = "consume" /\ obs.only1 /\ clock < obs.firstNow + windowMs) =>
        /\ nDone <= max => last.allowed /\ last.remaining = max - nDone
        /\ nDone = max + 1 => ~last.allowed /\ last.remaining = 0

\* C1 witness: the quota of 2 is used up and the third call of the window is rejected.
C1_Witness ==
    /\ last.op = "consume" /\ obs.only1 /\ clock < obs.firstNow + windowMs
    /\ max = 2 /\ nDone = 3 /\ obs.admitted = 2
    /\ ~last.allowed /\ last.remaining = 0

\* C2: a consume whose cost does not fit in what the count it read leaves of
\* the quota is rejected and adds no entry (max = 10: after consume(id, 5),
\* consume(id, 6) is rejected and the record keeps 5 entries).
C2_CostMustFit ==
    (last.op = "consume" /\ last.out = "ok" /\ last.cnt + last.cost > max) =>
        ~last.allowed /\ last.added = 0

\* C3: consume(id, 1) calls racing on an unused identifier with max = 1: once
\* the N >= 1 calls have returned, at least 1 and at most N were admitted; and
\* no result reports a negative remaining.
C3_RaceAdmitsSome ==
    /\ last.remaining >= 0
    /\ (max = 1 /\ obs.only1 /\ nDone >= 1 /\ InFlight = {}) =>
           obs.admitted >= 1 /\ obs.admitted <= nDone

\* C3 witness: two calls raced past the guard and the record of quota 1 holds 2 entries.
C3_Witness ==
    /\ max = 1 /\ obs.only1 /\ nDone >= 2 /\ InFlight = {}
    /\ obs.admitted = 2 /\ Cardinality(Live) = 2
    /\ last.op = "consume" /\ last.allowed /\ last.remaining = 0

\* How many consume calls may be in flight at once, and the largest cost of one
RacingCalls == IF env.sequential THEN 1 ELSE NumCallers

LargestCost == CHOOSE k \in env.costs : \A j \in env.costs : j <= k

\* C4: with k consume calls of cost c racing, the entries inside the window
\* never number more than max + (k - 1) * c; with one caller, never more than max.
C4_OvershootBounded == Cardinality(Live) <= max + (RacingCalls - 1) * LargestCost

\* C5: a check made more than windowMs after the most recent admitted consume
\* returns allowed = true and remaining = max.
C5_WindowExpiry ==
    (last.op = "check" /\ obs.lastAdmit >= 0 /\ last.now - obs.lastAdmit > windowMs) =>
        last.allowed /\ last.remaining = max

\* C5 witness: the quota of 1 was consumed, windowMs and more went by, a check returned.
C5_Witness ==
    /\ last.op = "check" /\ obs.lastAdmit >= 0 /\ last.now - obs.lastAdmit > windowMs
    /\ max = 1 /\ last.allowed /\ last.remaining = 1

\* C6: a check whose batch is the first command the store serves after a
\* reset's delete returns allowed = true and remaining = total = max, as does a
\* check of an identifier never used; a reset completes without error, and on
\* an absent record it leaves the store as it was.
C6_ResetThenCheck ==
    /\ (last.op = "check" /\ last.prev \in {"reset", "none"}) =>
           last.allowed /\ last.remaining = max /\ last.total = max
    /\ last.op = "reset" => last.out = "ok" /\ (last.absent => ~last.changed)

\* C6 witness: a check right after the reset of a record that an admitted
\* consume had filled within the window.
C6_Witness ==
    /\ last.op = "check" /\ last.prev = "reset"
    /\ obs.lastAdmit >= 0 /\ clock - obs.lastAdmit < windowMs
    /\ last.allowed /\ last.remaining = max

\* The step in which caller c's check runs its batch and returns
CheckReturns(c) == call[c].pc = "check_exec" /\ call'[c].pc = "idle"

\* What C7 says of a check besides the expiry: it adds no entry; every entry it
\* removes has a score outside the window of the call; and if the entries are
\* as the previous check left them and it removes none, it returns the
\* remaining that check returned.
CheckKeepsAdmission(c) ==
    /\ store'.z \subseteq store.z
    /\ \A e \in store.z \ store'.z : e.score <= call[c].now - windowMs
    /\ (obs.lastCheck # <<>> /\ store'.z = store.z /\ last'.out = "ok") =>
           last'.remaining = obs.lastCheck[1]

\* C7 as amended: check is non-destructive to admission state, and it leaves
\* the expiry of a record that still holds an entry after the trim unchanged.
C7_CheckFrame ==
    [][\A c \in Callers : CheckReturns(c) =>
           /\ CheckKeepsAdmission(c)
           /\ store'.z # {} => store'.exp = store.exp]_vars

\* C7 as stated: check never changes the record's expiry.
C7_ExpiryNeverChanges ==
    [][\A c \in Callers : CheckReturns(c) =>
           /\ CheckKeepsAdmission(c)
           /\ store'.exp = store.exp]_vars

\* C7 witness: a second check, with the entries as the first left them, has
\* returned the same remaining below max, and the record still has its expiry.
C7_Witness ==
    /\ last.op = "check" /\ obs.lastCheck = <<last.remaining>>
    /\ last.remaining < max /\ ~last.changed /\ last.prev = "check"
    /\ store.z # {} /\ store.exp > clock

\* The options the specification calls an invalid configuration
InvalidOptions(opts) ==
    \/ opts.windowMs # Undefined /\ opts.windowMs[1] <= 0
    \/ opts.max # Undefined /\ opts.max[1] < 0

\* C8: an invalid configuration ends in an InvalidConfiguration error: the
\* constructor given windowMs <= 0 or max < 0, and consume given cost < 0, which
\* then issues no store operation; and a given value is never replaced.
C8_InvalidConfigurationRejected ==
    /\ InvalidOptions(options) => CtorOutcome(options) = "InvalidConfiguration"
    /\ options.windowMs # Undefined => windowMs = options.windowMs[1]
    /\ options.max # Undefined => max = options.max[1]
    /\ (last.op = "consume" /\ last.cost < 0) => last.out = "error" /\ last.trips = 0

\* C9: a check or consume one of whose batches failed (exec() rejected, resolved
\* with null, or resolved with an error in a reply) ends in an error and returns
\* no decision, and it issues no batch again.
C9_StoreFailurePropagates ==
    (last.op \in {"check", "consume"} /\ last.fault) =>
        last.out = "error" /\ ~last.allowed /\ last.trips <= 2

\* C10: a limiter constructed with max = 0 has quota 0: every check returns
\* allowed = false, remaining = 0, total = 0, and every consume is rejected and
\* adds nothing.
C10_ZeroQuota ==
    options.max = Some(0) =>
        /\ last.op = "check" => ~last.allowed /\ last.remaining = 0 /\ last.total = 0
        /\ last.op = "consume" => ~last.allowed /\ last.added = 0

\* C12: the resetAt of check: now + max(ttl, 0) when the record has an expiry
\* after the trim, and now + windowMs when it is absent (or has no expiry); so
\* now + windowMs for an identifier never used.
C12_CheckResetAt ==
    (last.op = "check" /\ last.out = "ok") =>
        last.resetAt = IF store.z # {} /\ store.exp >= 0
                       THEN last.now + MathMax(store.exp - clock, 0)
                       ELSE last.now + windowMs

\* The step in which caller c's consume runs its read batch and takes the rejection
ReadRejects(c) == call[c].pc = "consume_read" /\ call'[c].pc = "consume_ttl"

\* The step in which caller c's consume reads the ttl and returns the rejection
TtlReturns(c) == call[c].pc = "consume_ttl" /\ call'[c].pc = "idle"

\* C13: a consume that returns allowed = false has added no entry and has not
\* changed the record's expiry; all it did to the store is remove entries of
\* score <= now - windowMs.
C13_RejectionRecordsNothing ==
    [][\A c \in Callers :
          /\ ReadRejects(c) =>
                /\ store'.z \subseteq store.z
                /\ \A e \in store.z \ store'.z : e.score <= call[c].now - windowMs
                /\ store'.exp = store.exp
          /\ TtlReturns(c) => store' = store /\ ~last'.allowed /\ last'.added = 0]_vars

\* C13 witness: a consume has been rejected and the record is as full as before.
C13_Witness ==
    /\ last.op = "consume" /\ last.out = "ok" /\ ~last.allowed
    /\ Cardinality(store.z) >= max /\ store.exp > clock /\ last.added = 0

\* The step in which caller c's consume runs its write batch and returns
WriteReturns(c) == call[c].pc = "consume_write" /\ call'[c].pc = "idle"

\* What C14 says of the write batch itself: it keeps the entries there, adds
\* one entry per unit, the i-th of score now + i, and sets the expiry to
\* windowMs from the time the batch completes.
WriteAddsUnits(c) ==
    LET new == store'.z \ store.z
        cost == call[c].cost
    IN  /\ store.z \subseteq store'.z
        /\ Cardinality(new) = cost
        /\ \A i \in 0..(cost - 1) :
              Cardinality({e \in new : e.score = call[c].now + i}) = 1
        /\ store'.exp = clock + windowMs

\* C14 as amended: with one call at a time, an admitted consume of cost >= 1
\* adds its units and sets the expiry, and the count after it is the count it
\* read plus cost unless the record expired between its two batches.
C14_AdmissionEffect ==
    [][\A c \in Callers : (WriteReturns(c) /\ call[c].cost >= 1) =>
          /\ WriteAddsUnits(c)
          /\ (store.z # {} \/ call[c].cnt = 0) =>
                 Zcard(store') = call[c].cnt + call[c].cost]_vars

\* C14 as stated: the count after the call is always the count read plus cost.
C14_CountIsReadPlusCost ==
    [][\A c \in Callers : (WriteReturns(c) /\ call[c].cost >= 1) =>
          /\ WriteAddsUnits(c)
          /\ Zcard(store') = call[c].cnt + call[c].cost]_vars

\* C14 witness: a consume of cost 2 was admitted onto a record that held an
\* entry, and the record now holds 3 with windowMs to live.
C14_Witness ==
    /\ last.op = "consume" /\ last.allowed /\ last.cost = 2 /\ last.cnt = 1
    /\ last.added = 2 /\ Zcard(store) = 3 /\ store.exp = clock + windowMs

\* C15: once windowMs has passed since the most recent admitted consume wrote,
\* the store holds no record, whatever checks are made meanwhile.
C15_Reclaimed ==
    (obs.lastAdmit >= 0 /\ clock >= obs.lastAdmit + windowMs) => store = EmptyStore

\* C15 witness: a check has just returned, windowMs or more after the last
\* admitted consume, and there is no record.
C15_Witness ==
    /\ obs.lastAdmit >= 0 /\ clock >= obs.lastAdmit + windowMs
    /\ last.op = "check" /\ last.prev = "check" /\ store = EmptyStore

\* A rejected consume has just returned
Rejected == last.op = "consume" /\ last.out = "ok" /\ ~last.allowed

\* C16 as amended: with one call at a time, a rejected consume reports a
\* resetAt between its own now and the last admitted write + windowMs, and
\* exactly the latter when its ttl is read in the millisecond of its now.
C16_RejectionResetAt ==
    Rejected =>
        /\ last.resetAt >= last.now
        /\ last.resetAt <= obs.lastAdmit + windowMs
        /\ clock = last.now => last.resetAt = obs.lastAdmit + windowMs

\* C16 as stated: resetAt is the time of the last admitted consume + windowMs.
C16_ResetAtIsLastAdmitPlusWindow ==
    Rejected => last.resetAt = obs.lastAdmit + windowMs /\ last.resetAt >= last.now

\* C16 witness: admitted at 0, rejected at 1 without delay, resetAt = windowMs.
C16_Witness ==
    /\ Rejected /\ obs.lastAdmit = 0 /\ last.now = 1 /\ clock = 1
    /\ last.resetAt = windowMs

\* C17: with one call at a time and consumes of cost 1, the entries inside the
\* window never number more than max.
C17_QuotaHolds == Cardinality(Live) <= max

\* C17 witness: the quota of 2 is full and a third consume has been rejected.
C17_Witness == max = 2 /\ Cardinality(Live) = 2 /\ Rejected

\* The step in which caller c's check or consume runs the batch that counts
Counts(c) ==
    \/ call[c].pc = "check_exec" /\ call'[c].pc = "idle"
    \/ call[c].pc = "consume_read" /\ call'[c].pc # "consume_read"

\* C18: every entry a check or consume counts was recorded by a consume whose
\* own now is less than windowMs before the now of the counting call.
C18_CountedWithinWindow ==
    [][\A c \in Callers : Counts(c) =>
          \A e \in store'.z : call[c].now - e.member[1] < windowMs]_vars

\* C19 as amended: after a reset has returned, while no consume has started
\* and no write batch of a consume that was in flight has been served, the
\* store holds no entry and every check reports remaining = max.
C19_ResetHolds ==
    obs.sinceReset = "quiet" =>
        /\ store.z = {}
        /\ (last.op = "check" /\ last.out = "ok") => last.remaining = max

\* C19 as stated: the same whenever no consume has started since the reset,
\* also after a consume that had read before the reset has written.
C19_ResetHoldsDespiteInFlight ==
    obs.sinceReset \in {"quiet", "wrote"} =>
        /\ store.z = {}
        /\ (last.op = "check" /\ last.out = "ok") => last.remaining = max

\* C19 witness: a check returns remaining = max after a reset, while a consume
\* that read before the reset has yet to write.
C19_Witness ==
    /\ obs.sinceReset = "quiet" /\ last.op = "check" /\ last.remaining = max
    /\ last.prev = "reset" /\ \E c \in Callers : call[c].pc = "consume_write"

\* The middleware has finished with the request
Dispatched == mw.req.pc = "done"

\* C11: a middleware given {max: M} rejects the (M+1)-th request of a window
\* that was not skipped: the handler is invoked and next is not called.
C11_MiddlewareQuota ==
    (/\ mw.max # Undefined /\ mw.clean /\ Dispatched /\ mw.req.consumes = 1
     /\ nDone = mw.max[1] + 1 /\ clock < obs.firstNow + windowMs) =>
        mw.req.handled = 1 /\ mw.req.nexts = 0

\* What C20 says of a skipped, an admitted and a rejected request
DispatchFollowsResult ==
    /\ mw.req.skipped => mw.req.consumes = 0
    /\ (Dispatched /\ mw.req.nexts = 1) => mw.req.skipped \/ mw.req.result.allowed
    /\ mw.req.handled = 1 =>
          /\ mw.req.consumes = 1 /\ ~mw.req.result.allowed /\ mw.req.nexts = 0
    /\ (Dispatched /\ mw.req.consumes = 1 /\ mw.req.threw = "none") =>
          IF mw.req.result.allowed
          THEN mw.req.nexts = 1 /\ mw.req.handled = 0
          ELSE mw.req.nexts = 0 /\ mw.req.handled = 1

\* C20 as amended: next is called at most once, with or without an error, and
\* the handler at most once; a request ends in next() alone, in the handler
\* alone, or in next(error), which follows the handler when the handler threw.
C20_Dispatch ==
    /\ mw.req.nexts + mw.req.errors <= 1
    /\ mw.req.handled <= 1
    /\ Dispatched =>
          \/ mw.req.nexts = 1 /\ mw.req.handled = 0 /\ mw.req.threw = "none"
          \/ mw.req.handled = 1 /\ mw.req.errors = 0 /\ mw.req.threw = "none"
          \/ /\ mw.req.errors = 1
             /\ mw.req.threw \in {"skip", "keyGenerator", "consume", "handler"}
             /\ mw.req.handled = IF mw.req.threw = "handler" THEN 1 ELSE 0
    /\ DispatchFollowsResult

\* C20 as stated: exactly one of next(), the handler and next(error), once.
C20_ExactlyOneOutcome ==
    /\ mw.req.nexts + mw.req.handled + mw.req.errors <= 1
    /\ Dispatched =>
          /\ mw.req.nexts + mw.req.handled + mw.req.errors = 1
          /\ mw.req.errors = 1 => mw.req.threw \in {"skip", "keyGenerator", "consume"}
    /\ DispatchFollowsResult

\* C20 witness: the third request is rejected: the handler has answered 429
\* with a Retry-After header, and next was not called.
C20_Witness ==
    /\ Dispatched /\ mw.reqs = 3 /\ mw.clean /\ ~mw.req.result.allowed
    /\ mw.req.handled = 1 /\ mw.req.nexts = 0 /\ mw.req.errors = 0
    /\ mw.req.status = 429 /\ mw.req.hdr.retryAfter # Undefined

====
